---- MODULE Spec2Model ----
(***************************************************************************)
(* XFileUnpacker command-line tool (src/src/cli/main_cli.cpp).             *)
(*                                                                         *)
(* The file holds two revisions of the CLI: the earlier one (lines 1-245)  *)
(* and the later one (lines 247-544), which adds the progress callback and *)
(* the --test-progress option and drops the XArchive downcast.  The        *)
(* variable rev says which revision runs.                                  *)
(*                                                                         *)
(* One run of main() is a walk of pc from "Start" to an exit.  The         *)
(* collaborators the code calls (QFileInfo, QFile, XFormats, QDir) are the *)
(* environment: the result of each call is drawn when the call is made.    *)
(***************************************************************************)
EXTENDS Integers, Sequences, FiniteSets, TLC

\* ------------------------------------------------------------------ bounds

\* Most positional arguments given on the command line.
MaxArgs == 2
\* Most records an enumeration returns.
MaxRecords == 2
\* Most top-level files a folder extraction writes.
MaxFiles == 2
\* Slots of the progress table (XBinary::N_NUMBER_PDRECORDS, set outside src/).
NumSlots == 2
\* Largest current/total a stage reports when stages run freely.
MaxCount == 2
\* The same where the history of the rendered percent is kept as well.
MaxMonoCount == 1
\* The throttled reporter: the clock runs MaxTicks ticks, Window of them make
\* one second, and the minimum interval is 1 .. MaxInterval ticks.
MaxTicks == 3
Window == 3
MaxInterval == 2

\* ------------------------------------------------------- program constants

\* setPdStructInit(&pdStruct, 0, 100): the demo stage's total.
TestProgressTotal == 100
\* for (i = 0; i <= 100; i += 5): the demo stage's step.
TestProgressIncrement == 5

\* ------------------------------------------------------------- value names

NoExit == -1
NoPercent == -1
NoTime == -1

\* QDir::tempPath() + separator + "xfileunpacker_test_" + msecs since epoch
\* A path is <<directory, file name>>, a file name the sequence of the
\* parts its dots separate.
TempDir == <<"/tmp", <<"xfileunpacker_test_<msecs>">>>>
InputDir == "/a/b"
FileNames == {<<"archive", "zip">>, <<"archive", "tar", "gz">>, <<"archive">>}
OutputDirs == {"", "/out"}
Handlers == {"null", "binary", "archive"}
FileStats == {"missing", "dir", "file"}
StatusSet == {"", "A", "B"}
Slots == 0 .. (NumSlots - 1)

MsgNoInput == "No input file specified"
MsgNotFound == "File not found"
MsgNotAFile == "Not a file"
MsgCannotOpen == "Cannot open file"
MsgUnsupported == "Not an archive or unsupported format"
MsgNotArchive == "Not an archive format"
MsgNoRecords == "Archive contains no records"
MsgTestFailed == "Test FAILED: Could not extract archive"
MsgExtractFailed == "Failed to extract archive"

VARIABLES
    rev,            \* "earlier" | "later": which revision of main() runs
    args,           \* the parsed command line
    pc,             \* position of main()
    hist,           \* the orchestrator stages entered so far, in order
    exitCode,       \* the process's exit code, NoExit while it runs
    errors,         \* the lines printError wrote, in order
    fileStat,       \* what QFileInfo found at the input path
    bListOnly, bTest, bExtract, sOutputDir,
    fileState,      \* QFile file: "unopened" | "open" | "closed"
    openCalls, closeCalls,
    pBinary,        \* "unset" | "null" | "binary" | "archive"
    handlerLive,    \* the object behind pBinary is allocated
    deleteCalls,
    enumCalls,      \* calls of XFormats::getArchiveRecords
    nRecords,       \* listRecords.count(), -1 before the enumeration
    fsDirs,         \* directories that exist, of those the run can touch
    fsLog,          \* filesystem operations the run performed, in order
    tempFiles,      \* top-level files now in the temporary directory
    wroteFiles,     \* top-level files the folder extraction wrote, -1 before
    bTestResult, nExtractedFiles, bUnpackResult,
    verdict,        \* "none" | "PASSED" | "FAILED" (Test), "EXTRACTED" (Extract)
    pdRecord,       \* pdStruct._pdRecord
    out,            \* what the last progress operation rendered
    tpI,            \* testProgressCallback's loop counter i
    lastPercent,    \* the percent of the latest rendered update, NoPercent if none
    prevPercent,    \* the percent the operation before the last rendered, if any
    totalShrunk,    \* some slot's nTotal was lowered at some point
    now,            \* the clock the reporter reads, in ticks
    nLastCallbackTime,  \* pdStruct.nLastCallbackTime
    minInterval,    \* the reporter's minimum interval, in ticks
    cbLast,         \* the time of the latest callback invocation, NoTime if none
    cbTimes,        \* the times of the invocations that were not final updates
    lastOp          \* the last operation on the table: "none" | "begin" |
                    \* "end" | "report" | "ignored" (a report on a slot not in use)

mainVars == <<rev, args, pc, hist, exitCode, errors, fileStat, bListOnly, bTest,
              bExtract, sOutputDir, fileState, openCalls, closeCalls, pBinary,
              handlerLive, deleteCalls, enumCalls, nRecords, fsDirs, fsLog,
              tempFiles, wroteFiles, bTestResult, nExtractedFiles,
              bUnpackResult, verdict>>
throttleVars == <<now, nLastCallbackTime, minInterval, cbLast, cbTimes,
                  lastOp>>
progressVars == <<pdRecord, out, tpI, lastPercent, prevPercent, totalShrunk,
                  throttleVars>>
vars == <<mainVars, progressVars>>

\* ------------------------------------------------------- main(): decisions

\* Mutant: extraction is switched on whatever was asked for.
DefaultExtract_Always(l, t, x) == TRUE

\* if (!bListOnly && !bTest && !bExtract) bExtract = true;
DefaultExtract(l, t, x) == (~l /\ ~t /\ ~x) \/ x

\* Mutant: the existence check is lost.
FileMissing_Never(st) == FALSE

\* if (!fileInfo.exists())
FileMissing(st) == st = "missing"

\* Mutant: the regular-file check is lost.
NotAFile_Never(st) == FALSE

\* if (!fileInfo.isFile())
NotAFile(st) == st # "file"

\* Mutant: a null handler is not noticed.
HandlerMissing_Never(p) == FALSE

\* if (!pBinary)
HandlerMissing(p) == p = "null"

\* dynamic_cast<XArchive *>(pBinary) yields null (earlier revision only)
NotArchive(r, p) == r = "earlier" /\ p # "archive"

\* Mutant: an empty record list is not noticed.
RecordsEmpty_Never(n) == FALSE

\* if (listRecords.isEmpty())
RecordsEmpty(n) == n = 0

\* Mutant: the branches are tried in the opposite order.
ChosenAction_ExtractFirst(l, t, x) ==
    IF x THEN "Extracting"
    ELSE IF t THEN "Testing"
    ELSE IF l THEN "Listing"
    ELSE "None"

\* if (bListOnly) ... else if (bTest) ... else if (bExtract) ...
ChosenAction(l, t, x) ==
    IF l THEN "Listing"
    ELSE IF t THEN "Testing"
    ELSE IF x THEN "Extracting"
    ELSE "None"

\* Mutant: the handler's word is taken without counting the files.
TestPassed_Unchecked(r, n) == r

\* if (bTestResult && nExtractedFiles > 0)
TestPassed(r, n) == r /\ n > 0

\* fileInfo.absoluteFilePath()
InputFilePath(name) == <<InputDir, name>>

\* QFileInfo::completeBaseName(): the name up to its last dot, the whole
\* name if it has none.
completeBaseName(name) ==
    IF Len(name) > 1 THEN SubSeq(name, 1, Len(name) - 1) ELSE name

\* sOutputDir.isEmpty() ? fileInfo.absolutePath() : sOutputDir, then
\* + QDir::separator() + fileInfo.completeBaseName()
ExtractPath(o, name) ==
    <<IF o = "" THEN InputDir ELSE o, completeBaseName(name)>>

\* QDir().mkpath(p), its result dropped: the directories there are after
\* it; none is made where a regular file has the name.
mkpath(dirs, files, p) == IF p \in files THEN dirs ELSE dirs \cup {p}

\* ---------------------------------------------------------- main(): exits

\* Mutant: the run fails without a word.
Fail_Silent(msg, held) ==
    /\ errors' = errors
    /\ exitCode' = 1
    /\ pc' = "Failed"
    /\ hist' = Append(hist, "Failed")
    /\ handlerLive' = IF "handler" \in held THEN FALSE ELSE handlerLive
    /\ deleteCalls' = IF "handler" \in held THEN deleteCalls + 1 ELSE deleteCalls
    /\ fileState' = IF "file" \in held THEN "closed" ELSE fileState
    /\ closeCalls' = IF "file" \in held THEN closeCalls + 1 ELSE closeCalls

\* printError(msg); [release what is held]; return 1;
Fail(msg, held) ==
    /\ errors' = Append(errors, msg)
    /\ exitCode' = 1
    /\ pc' = "Failed"
    /\ hist' = Append(hist, "Failed")
    /\ handlerLive' = IF "handler" \in held THEN FALSE ELSE handlerLive
    /\ deleteCalls' = IF "handler" \in held THEN deleteCalls + 1 ELSE deleteCalls
    /\ fileState' = IF "file" \in held THEN "closed" ELSE fileState
    /\ closeCalls' = IF "file" \in held THEN closeCalls + 1 ELSE closeCalls

\* Mutant: the run returns 0 with the file still open.
Finish_FileLeftOpen ==
    /\ exitCode' = 0
    /\ pc' = "Done"
    /\ hist' = Append(hist, "Done")
    /\ handlerLive' = FALSE
    /\ deleteCalls' = deleteCalls + 1
    /\ UNCHANGED <<fileState, closeCalls, errors>>

\* delete pBinary; file.close(); return 0;
Finish ==
    /\ exitCode' = 0
    /\ pc' = "Done"
    /\ hist' = Append(hist, "Done")
    /\ handlerLive' = FALSE
    /\ deleteCalls' = deleteCalls + 1
    /\ fileState' = "closed"
    /\ closeCalls' = closeCalls + 1
    /\ UNCHANGED errors

Enter(stage) ==
    /\ pc' = stage
    /\ hist' = Append(hist, stage)
    /\ UNCHANGED <<exitCode, errors>>

Running == exitCode = NoExit

\* ---------------------------------------------------------- main(): steps

\* if (listArgs.isEmpty()) { printError(...); parser.showHelp(1); }
NoInputFile ==
    /\ Running /\ pc = "Start"
    /\ ~(rev = "later" /\ args.testProgress)
    /\ args.nPositional = 0
    /\ Fail(MsgNoInput, {})
    /\ UNCHANGED <<rev, args, fileStat, bListOnly, bTest, bExtract, sOutputDir,
                   openCalls, pBinary, enumCalls, nRecords, fsDirs, fsLog,
                   tempFiles, wroteFiles, bTestResult, nExtractedFiles,
                   bUnpackResult, verdict, progressVars>>

\* QFileInfo fileInfo(sInputFile); exists(), isFile(); then the flags are read.
Validate ==
    /\ Running /\ pc = "Start"
    /\ ~(rev = "later" /\ args.testProgress)
    /\ args.nPositional > 0
    /\ \E st \in FileStats :
        /\ fileStat' = st
        /\ IF FileMissing(st)
           THEN /\ Fail(MsgNotFound, {})
                /\ UNCHANGED <<bListOnly, bTest, bExtract, sOutputDir>>
           ELSE IF NotAFile(st)
           THEN /\ Fail(MsgNotAFile, {})
                /\ UNCHANGED <<bListOnly, bTest, bExtract, sOutputDir>>
           ELSE /\ bListOnly' = args.list
                /\ bTest' = args.test
                /\ bExtract' = DefaultExtract(args.list, args.test, args.extract)
                /\ sOutputDir' = args.output
                /\ Enter("Validated")
                /\ UNCHANGED <<handlerLive, deleteCalls, fileState, closeCalls>>
    /\ UNCHANGED <<rev, args, openCalls, pBinary, enumCalls, nRecords, fsDirs,
                   fsLog, tempFiles, wroteFiles, bTestResult, nExtractedFiles,
                   bUnpackResult, verdict, progressVars>>

\* file.open(ReadOnly); getFileTypes, _getPrefFileType; getClass; the checks
\* on pBinary (and, in the earlier revision, on the XArchive downcast).
Detect ==
    /\ Running /\ pc = "Validated"
    /\ openCalls' = openCalls + 1
    /\ \E opened \in BOOLEAN, h \in Handlers :
        IF ~opened
        THEN /\ Fail(MsgCannotOpen, {})
             /\ UNCHANGED pBinary
        ELSE /\ pBinary' = h
             /\ IF HandlerMissing(h)
                THEN Fail(MsgUnsupported, {"file"})
                ELSE IF NotArchive(rev, h)
                THEN Fail(MsgNotArchive, {"file", "handler"})
                ELSE /\ Enter("Detected")
                     /\ handlerLive' = TRUE
                     /\ fileState' = "open"
                     /\ UNCHANGED <<deleteCalls, closeCalls>>
    /\ UNCHANGED <<rev, args, fileStat, bListOnly, bTest, bExtract, sOutputDir,
                   enumCalls, nRecords, fsDirs, fsLog, tempFiles, wroteFiles,
                   bTestResult, nExtractedFiles, bUnpackResult, verdict,
                   progressVars>>

\* createPdStruct (and, later revision, the callback wiring);
\* XFormats::getArchiveRecords; if (listRecords.isEmpty()) ...
Enumerate ==
    /\ Running /\ pc = "Detected"
    /\ enumCalls' = enumCalls + 1
    /\ \E n \in 0 .. MaxRecords :
        /\ nRecords' = n
        /\ IF RecordsEmpty(n)
           THEN Fail(MsgNoRecords, {"file", "handler"})
           ELSE /\ Enter("Enumerated")
                /\ UNCHANGED <<handlerLive, deleteCalls, fileState, closeCalls>>
    /\ UNCHANGED <<rev, args, fileStat, bListOnly, bTest, bExtract, sOutputDir,
                   openCalls, pBinary, fsDirs, fsLog, tempFiles, wroteFiles,
                   bTestResult, nExtractedFiles, bUnpackResult, verdict,
                   progressVars>>

\* The if / else-if chain on bListOnly, bTest, bExtract.  With none of them
\* set no branch is taken and main() runs on to its last lines.
Dispatch ==
    /\ Running /\ pc = "Enumerated"
    /\ LET a == ChosenAction(bListOnly, bTest, bExtract) IN
        IF a = "None"
        THEN Finish
        ELSE /\ Enter(a)
             /\ UNCHANGED <<handlerLive, deleteCalls, fileState, closeCalls>>
    /\ UNCHANGED <<rev, args, fileStat, bListOnly, bTest, bExtract, sOutputDir,
                   openCalls, pBinary, enumCalls, nRecords, fsDirs, fsLog,
                   tempFiles, wroteFiles, bTestResult, nExtractedFiles,
                   bUnpackResult, verdict, progressVars>>

\* The bListOnly branch: the table is printed, nothing else is touched.
List ==
    /\ Running /\ pc = "Listing"
    /\ Finish
    /\ UNCHANGED <<rev, args, fileStat, bListOnly, bTest, bExtract, sOutputDir,
                   openCalls, pBinary, enumCalls, nRecords, fsDirs, fsLog,
                   tempFiles, wroteFiles, bTestResult, nExtractedFiles,
                   bUnpackResult, verdict, progressVars>>

\* The bTest branch up to the count: mkpath(sTempDir); unpackDeviceToFolder;
\* nExtractedFiles = entryInfoList(Files).count() when bTestResult.
\* The handler may write files whatever it returns.
TestExtract ==
    /\ Running /\ pc = "Testing"
    /\ \E r \in BOOLEAN, k \in 0 .. MaxFiles :
        /\ bTestResult' = r
        /\ wroteFiles' = k
        /\ tempFiles' = k
        /\ nExtractedFiles' = IF r THEN k ELSE 0
    /\ fsDirs' = fsDirs \cup {TempDir}
    /\ fsLog' = fsLog \o <<<<"mkpath", TempDir>>, <<"unpack", TempDir>>>>
    /\ pc' = "TestCounted"
    /\ UNCHANGED <<rev, args, hist, exitCode, errors, fileStat, bListOnly, bTest,
                   bExtract, sOutputDir, fileState, openCalls, closeCalls,
                   pBinary, handlerLive, deleteCalls, enumCalls, nRecords,
                   bUnpackResult, verdict, progressVars>>

\* Mutant: the temporary directory is removed only after a good extraction.
TestCleanup_OnSuccess ==
    /\ Running /\ pc = "TestCounted"
    /\ fsDirs' = IF bTestResult THEN fsDirs \ {TempDir} ELSE fsDirs
    /\ tempFiles' = IF bTestResult THEN 0 ELSE tempFiles
    /\ fsLog' = IF bTestResult THEN Append(fsLog, <<"remove", TempDir>>) ELSE fsLog
    /\ pc' = "TestCleaned"
    /\ UNCHANGED <<rev, args, hist, exitCode, errors, fileStat, bListOnly, bTest,
                   bExtract, sOutputDir, fileState, openCalls, closeCalls,
                   pBinary, handlerLive, deleteCalls, enumCalls, nRecords,
                   wroteFiles, bTestResult, nExtractedFiles, bUnpackResult,
                   verdict, progressVars>>

\* QDir(sTempDir).removeRecursively();
TestCleanup ==
    /\ Running /\ pc = "TestCounted"
    /\ fsDirs' = fsDirs \ {TempDir}
    /\ tempFiles' = 0
    /\ fsLog' = Append(fsLog, <<"remove", TempDir>>)
    /\ pc' = "TestCleaned"
    /\ UNCHANGED <<rev, args, hist, exitCode, errors, fileStat, bListOnly, bTest,
                   bExtract, sOutputDir, fileState, openCalls, closeCalls,
                   pBinary, handlerLive, deleteCalls, enumCalls, nRecords,
                   wroteFiles, bTestResult, nExtractedFiles, bUnpackResult,
                   verdict, progressVars>>

\* if (bTestResult && nExtractedFiles > 0) "Test PASSED" else "Test FAILED".
TestVerdict ==
    /\ Running /\ pc = "TestCleaned"
    /\ IF TestPassed(bTestResult, nExtractedFiles)
       THEN /\ verdict' = "PASSED"
            /\ Finish
       ELSE /\ verdict' = "FAILED"
            /\ Fail(MsgTestFailed, {"file", "handler"})
    /\ UNCHANGED <<rev, args, fileStat, bListOnly, bTest, bExtract, sOutputDir,
                   openCalls, pBinary, enumCalls, nRecords, fsDirs, fsLog,
                   tempFiles, wroteFiles, bTestResult, nExtractedFiles,
                   bUnpackResult, progressVars>>

\* The bExtract branch: the destination is computed and created, the handler
\* extracts into it, and its result decides the exit.
Extract ==
    /\ Running /\ pc = "Extracting"
    /\ LET sExtractPath == ExtractPath(sOutputDir, args.file) IN
        /\ sOutputDir' = sExtractPath[1]
        /\ fsDirs' = mkpath(fsDirs, {InputFilePath(args.file)}, sExtractPath)
        /\ fsLog' = fsLog \o <<<<"mkpath", sExtractPath>>,
                               <<"unpack", sExtractPath>>>>
    /\ \E r \in BOOLEAN, k \in 0 .. MaxFiles :
        /\ bUnpackResult' = r
        /\ wroteFiles' = k
        /\ IF r
           THEN /\ verdict' = "EXTRACTED"
                /\ Finish
           ELSE /\ verdict' = "none"
                /\ Fail(MsgExtractFailed, {"file", "handler"})
    /\ UNCHANGED <<rev, args, fileStat, bListOnly, bTest, bExtract, openCalls,
                   pBinary, enumCalls, nRecords, tempFiles, bTestResult,
                   nExtractedFiles, progressVars>>


\* ------------------------------------------------------- progress: the table

\* XBinary::createPdStruct(): every slot unused.
createPdStruct ==
    [i \in Slots |-> [bIsValid |-> FALSE, nCurrent |-> 0, nTotal |-> 0,
                      sStatus |-> ""]]

\* XBinary::setPdStructInit(pd, i, total), then _pdRecord[i].sStatus = status.
setPdStructInit(pd, i, total, status) ==
    [pd EXCEPT ![i] = [bIsValid |-> TRUE, nCurrent |-> 0, nTotal |-> total,
                       sStatus |-> status]]

\* The stage's end: the slot is released, its counters stay as they are.
setPdStructFinished(pd, i) ==
    [pd EXCEPT ![i].bIsValid = FALSE]

\* ---------------------------------------------------- progressCallback

\* Mutant: a slot counts whether it is in use or not.
SlotCounts_Always(r) == TRUE

\* if (pdStruct._pdRecord[i].bIsValid)
SlotCounts(r) == r.bIsValid

\* Mutant: an empty status is listed like any other.
StatusListed_Always(sStatus) == TRUE

\* if (!sStatus.isEmpty())
StatusListed(sStatus) == sStatus # ""

\* The for loop over _pdRecord[0 .. n-1]: the three accumulators after it.
RECURSIVE Aggregate(_, _)
Aggregate(pd, n) ==
    IF n = 0
    THEN [nTotalCurrent |-> 0, nTotalAll |-> 0, listStatuses |-> <<>>]
    ELSE LET acc == Aggregate(pd, n - 1)
             r == pd[n - 1]
         IN  IF SlotCounts(r)
             THEN [nTotalCurrent |-> acc.nTotalCurrent + r.nCurrent,
                   nTotalAll |-> acc.nTotalAll + r.nTotal,
                   listStatuses |-> IF StatusListed(r.sStatus)
                                    THEN Append(acc.listStatuses, r.sStatus)
                                    ELSE acc.listStatuses]
             ELSE acc

\* QStringList::join(sep)
RECURSIVE Join(_, _)
Join(list, sep) ==
    IF list = <<>> THEN ""
    ELSE IF Len(list) = 1 THEN list[1]
    ELSE Join(SubSeq(list, 1, Len(list) - 1), sep) \o sep \o list[Len(list)]

\* Mutant: the line is rendered for a zero total as well.
ShouldRender_ZeroToo(nTotalAll) == nTotalAll >= 0

\* if (nTotalAll > 0)
ShouldRender(nTotalAll) == nTotalAll > 0

\* Mutant: the share still to do is shown instead of the share done.
Percent_Remaining(nTotalCurrent, nTotalAll) ==
    IF nTotalAll = 0 THEN NoPercent
    ELSE ((nTotalAll - nTotalCurrent) * 100) \div nTotalAll

\* qint32 nPercent = (nTotalCurrent * 100) / nTotalAll;
\* A zero divisor is undefined behaviour in the code; the record's divided
\* field with total = 0 marks it, and no quotient is formed for it here.
Percent(nTotalCurrent, nTotalAll) ==
    IF nTotalAll = 0 THEN NoPercent ELSE (nTotalCurrent * 100) \div nTotalAll

NothingRendered(wasCalled) ==
    [called |-> wasCalled, emitted |-> FALSE, divided |-> FALSE,
     percent |-> NoPercent, current |-> 0, total |-> 0, status |-> ""]

\* progressCallback(nullptr, &pdStruct): the line it writes, if any.
progressCallback(pd) ==
    LET acc == Aggregate(pd, NumSlots) IN
        IF ShouldRender(acc.nTotalAll)
        THEN [called |-> TRUE, emitted |-> TRUE, divided |-> TRUE,
              percent |-> Percent(acc.nTotalCurrent, acc.nTotalAll),
              current |-> acc.nTotalCurrent, total |-> acc.nTotalAll,
              status |-> Join(acc.listStatuses, "/")]
        ELSE NothingRendered(TRUE)

\* -------------------------------------------------- progress: operations

\* The history of the rendered percent and of the totals, kept beside the
\* table where a property speaks of more than two consecutive states.
Observe ==
    /\ lastPercent' = IF out'.emitted THEN out'.percent ELSE lastPercent
    /\ prevPercent' = IF out.emitted THEN out.percent ELSE NoPercent
    /\ totalShrunk' = (totalShrunk \/
                       \E i \in Slots : pdRecord'[i].nTotal < pdRecord[i].nTotal)

\* A stage claims slot i.
BeginStage(i, total, status) ==
    /\ pdRecord' = setPdStructInit(pdRecord, i, total, status)
    /\ out' = NothingRendered(FALSE)

\* pdStruct._pdRecord[i].nCurrent = c; progressCallback(nullptr, &pdStruct);
Advance(i, c) ==
    /\ pdRecord' = [pdRecord EXCEPT ![i].nCurrent = c]
    /\ out' = progressCallback(pdRecord')

\* A stage releases slot i.
EndStage(i) ==
    /\ pdRecord' = setPdStructFinished(pdRecord, i)
    /\ out' = NothingRendered(FALSE)


\* ------------------------------------------- the throttled reporter

\* Mutant: a report is never ignored.
ReportIgnored_Never(r) == FALSE

\* advance: "Fails silently (no-op) if the slot is not valid."
ReportIgnored(r) == ~r.bIsValid

\* Mutant: no update is ever held back.
Throttled_Never(t, last, interval) == FALSE

\* "If now - lastCallbackTime < minInterval, skip invocation"
Throttled(t, last, interval) == t - last < interval

\* "the final 100% update": the valid slots' work is all done.
IsFinalUpdate(pd) ==
    LET acc == Aggregate(pd, NumSlots)
    IN  acc.nTotalAll > 0 /\ acc.nTotalCurrent >= acc.nTotalAll

\* advance(state, i, c): the counter, then the aggregation/callback path.
ReportProgress(i, c) ==
    IF ReportIgnored(pdRecord[i])
    THEN /\ lastOp' = IF pdRecord[i].bIsValid THEN "report" ELSE "ignored"
         /\ out' = NothingRendered(FALSE)
         /\ UNCHANGED <<pdRecord, nLastCallbackTime, cbLast, cbTimes>>
    ELSE /\ lastOp' = IF pdRecord[i].bIsValid THEN "report" ELSE "ignored"
         /\ pdRecord' = [pdRecord EXCEPT ![i].nCurrent = c]
         /\ IF /\ Throttled(now, nLastCallbackTime, minInterval)
               /\ ~IsFinalUpdate(pdRecord')
            THEN /\ out' = NothingRendered(FALSE)
                 /\ UNCHANGED <<nLastCallbackTime, cbLast, cbTimes>>
            ELSE /\ out' = progressCallback(pdRecord')
                 /\ nLastCallbackTime' = now
                 /\ cbLast' = now
                 /\ cbTimes' = IF IsFinalUpdate(pdRecord') THEN cbTimes
                                ELSE cbTimes \cup {now}

\* Time passes.
Tick ==
    /\ now < MaxInterval + MaxTicks
    /\ now' = now + 1
    /\ UNCHANGED <<mainVars, pdRecord, out, tpI, lastPercent, prevPercent,
                   totalShrunk, nLastCallbackTime, minInterval, cbLast,
                   cbTimes, lastOp>>

\* ------------------------------------------------------- --test-progress

\* if (parser.isSet(testProgressOption)) testProgressCallback(): up to the loop.
TestProgressBegin ==
    /\ Running /\ pc = "Start"
    /\ rev = "later" /\ args.testProgress
    /\ pdRecord' = setPdStructInit(createPdStruct, 0, TestProgressTotal,
                                   "Processing files")
    /\ out' = NothingRendered(FALSE)
    /\ Observe
    /\ tpI' = 0
    /\ pc' = "TestProgress"
    /\ UNCHANGED <<rev, args, hist, exitCode, errors, fileStat, bListOnly, bTest,
                   bExtract, sOutputDir, fileState, openCalls, closeCalls,
                   pBinary, handlerLive, deleteCalls, enumCalls, nRecords,
                   fsDirs, fsLog, tempFiles, wroteFiles, bTestResult,
                   nExtractedFiles, bUnpackResult, verdict, throttleVars>>

\* Mutant: the turn writes the counter and leaves the callback out.
TestProgressTurn_NoCallback ==
    /\ Running /\ pc = "TestProgress"
    /\ tpI <= TestProgressTotal
    /\ pdRecord' = [pdRecord EXCEPT ![0].nCurrent = tpI]
    /\ out' = NothingRendered(FALSE)
    /\ Observe
    /\ tpI' = tpI + TestProgressIncrement
    /\ UNCHANGED <<mainVars, throttleVars>>

\* One turn of for (i = 0; i <= 100; i += 5).
TestProgressTurn ==
    /\ Running /\ pc = "TestProgress"
    /\ tpI <= TestProgressTotal
    /\ Advance(0, tpI)
    /\ Observe
    /\ tpI' = tpI + TestProgressIncrement
    /\ UNCHANGED <<mainVars, throttleVars>>

\* The loop is over: testProgressCallback returns and main returns 0.
TestProgressEnd ==
    /\ Running /\ pc = "TestProgress"
    /\ tpI > TestProgressTotal
    /\ exitCode' = 0
    /\ pc' = "TestProgressDone"
    /\ UNCHANGED <<rev, args, hist, errors, fileStat, bListOnly, bTest,
                   bExtract, sOutputDir, fileState, openCalls, closeCalls,
                   pBinary, handlerLive, deleteCalls, enumCalls, nRecords,
                   fsDirs, fsLog, tempFiles, wroteFiles, bTestResult,
                   nExtractedFiles, bUnpackResult, verdict, progressVars>>

\* ------------------------------------------------------- specifications

InitProgress ==
    /\ pdRecord = createPdStruct
    /\ out = NothingRendered(FALSE)
    /\ tpI = 0
    /\ lastPercent = NoPercent
    /\ prevPercent = NoPercent
    /\ totalShrunk = FALSE
    /\ nLastCallbackTime = 0
    /\ now = MaxInterval
    /\ cbLast = NoTime
    /\ cbTimes = {}
    /\ lastOp = "none"

InitRun ==
    /\ pc = "Start"
    /\ hist = <<"Start">>
    /\ exitCode = NoExit
    /\ errors = <<>>
    /\ fileStat = "unknown"
    /\ bListOnly = FALSE /\ bTest = FALSE /\ bExtract = FALSE
    /\ sOutputDir = ""
    /\ fileState = "unopened"
    /\ openCalls = 0 /\ closeCalls = 0
    /\ pBinary = "unset"
    /\ handlerLive = FALSE
    /\ deleteCalls = 0
    /\ enumCalls = 0
    /\ nRecords = -1
    /\ fsLog = <<>>
    /\ tempFiles = 0
    /\ wroteFiles = -1
    /\ bTestResult = FALSE /\ nExtractedFiles = 0 /\ bUnpackResult = FALSE
    /\ verdict = "none"

\* A run of main(): any revision, any command line, the destination
\* directory of an extraction there already or not.
Init ==
    /\ rev \in {"earlier", "later"}
    /\ args \in [testProgress : BOOLEAN, nPositional : 0 .. MaxArgs,
                 list : BOOLEAN, test : BOOLEAN, extract : BOOLEAN,
                 output : OutputDirs, file : FileNames]
    /\ (rev = "earlier" => ~args.testProgress)
    /\ fsDirs \in SUBSET ({ExtractPath(args.output, args.file)}
                              \ {InputFilePath(args.file)})
    /\ minInterval = MaxInterval
    /\ InitRun
    /\ InitProgress

Next ==
    \/ NoInputFile
    \/ Validate
    \/ Detect
    \/ Enumerate
    \/ Dispatch
    \/ List
    \/ TestExtract
    \/ TestCleanup
    \/ TestVerdict
    \/ Extract
    \/ TestProgressBegin
    \/ TestProgressTurn
    \/ TestProgressEnd

Spec == Init /\ [][Next]_vars

\* Stages reporting into one progress table in any order: the table starts
\* as createPdStruct leaves it, and main() stands still.
InitTable ==
    /\ rev = "later"
    /\ args = [testProgress |-> FALSE, nPositional |-> 1, list |-> FALSE,
               test |-> FALSE, extract |-> FALSE, output |-> "",
               file |-> <<"archive", "zip">>]
    /\ fsDirs = {}
    /\ InitRun
    /\ InitProgress

InitStages == InitTable /\ minInterval = MaxInterval

\* The same table, the reporter's minimum interval of any length.
InitThrottle == InitTable /\ minInterval \in 1 .. MaxInterval

StageBegins(counts, statuses) ==
    \E i \in Slots, t \in counts, s \in statuses : BeginStage(i, t, s)

StageAdvances(counts) ==
    \E i \in Slots, c \in counts : Advance(i, c)

StageEnds ==
    \E i \in Slots : EndStage(i)

\* Counters of every size up to MaxCount, no status text.
NextStages ==
    \/ StageBegins(0 .. MaxCount, {""})
         /\ UNCHANGED <<mainVars, tpI, lastPercent, prevPercent, totalShrunk,
                      throttleVars>>
    \/ StageAdvances(0 .. MaxCount)
         /\ UNCHANGED <<mainVars, tpI, lastPercent, prevPercent, totalShrunk,
                      throttleVars>>
    \/ StageEnds
         /\ UNCHANGED <<mainVars, tpI, lastPercent, prevPercent, totalShrunk,
                      throttleVars>>

SpecStages == InitStages /\ [][NextStages]_vars

\* The same with the history kept, over counters up to MaxMonoCount.
NextMonotone ==
    \/ StageBegins(0 .. MaxMonoCount, {""}) /\ Observe
         /\ UNCHANGED <<mainVars, tpI, throttleVars>>
    \/ StageAdvances(0 .. MaxMonoCount) /\ Observe
         /\ UNCHANGED <<mainVars, tpI, throttleVars>>
    \/ StageEnds /\ Observe
         /\ UNCHANGED <<mainVars, tpI, throttleVars>>

SpecMonotone == InitStages /\ [][NextMonotone]_vars

\* Stages that carry a status text, over counters up to MaxMonoCount.
NextStatus ==
    \/ StageBegins(0 .. MaxMonoCount, StatusSet)
         /\ UNCHANGED <<mainVars, tpI, lastPercent, prevPercent, totalShrunk,
                      throttleVars>>
    \/ StageAdvances(0 .. MaxMonoCount)
         /\ UNCHANGED <<mainVars, tpI, lastPercent, prevPercent, totalShrunk,
                      throttleVars>>
    \/ StageEnds
         /\ UNCHANGED <<mainVars, tpI, lastPercent, prevPercent, totalShrunk,
                      throttleVars>>

\* main() is a sequential program: it takes its next step as long as it has one.
SpecLive == Spec /\ WF_vars(Next)

SpecStatus == InitStages /\ [][NextStatus]_vars

\* Stages reporting through the throttled reporter while time passes.
NextThrottle ==
    \/ StageBegins({MaxMonoCount}, {""})
         /\ lastOp' = "begin"
         /\ UNCHANGED <<mainVars, tpI, lastPercent, prevPercent, totalShrunk,
                        now, nLastCallbackTime, minInterval, cbLast, cbTimes>>
    \/ (\E i \in Slots, c \in 0 .. MaxMonoCount : ReportProgress(i, c))
         /\ UNCHANGED <<mainVars, tpI, lastPercent, prevPercent, totalShrunk,
                        now, minInterval>>
    \/ StageEnds
         /\ lastOp' = "end"
         /\ UNCHANGED <<mainVars, tpI, lastPercent, prevPercent, totalShrunk,
                        now, nLastCallbackTime, minInterval, cbLast, cbTimes>>
    \/ Tick

SpecThrottle == InitThrottle /\ [][NextThrottle]_vars

\* ---------------------------------------------------- properties: helpers

Terminated == exitCode # NoExit
ActionStages == {"Listing", "Testing", "Extracting"}
Entered(stage) == \E k \in 1 .. Len(hist) : hist[k] = stage
ActionEntered == \E a \in ActionStages : Entered(a)
LastOf(seq) == seq[Len(seq)]

\* The orchestrator stage a position of main() belongs to.
StageOf(p) ==
    CASE p \in {"TestCounted", "TestCleaned"} -> "Testing"
      [] p \in {"TestProgress", "TestProgressDone"} -> "Start"
      [] OTHER -> p

Rank(stage) ==
    CASE stage = "Start" -> 0
      [] stage = "Validated" -> 1
      [] stage = "Detected" -> 2
      [] stage = "Enumerated" -> 3
      [] stage \in ActionStages -> 4
      [] OTHER -> 5

\* What the environment did to the run, stage by stage.
OpenFailed == openCalls > 0 /\ fileState = "unopened"
ValidationFailed == fileStat \in {"missing", "dir"} \/ OpenFailed
DetectionFailed == pBinary = "null"
EnumerationFailed == enumCalls > 0 /\ nRecords = 0
TestRan == Entered("Testing") /\ wroteFiles # -1
TestFailed == TestRan /\ ~(bTestResult /\ wroteFiles > 0)
ExtractFailed == Entered("Extracting") /\ wroteFiles # -1 /\ ~bUnpackResult
SomeStageFailed ==
    \/ ValidationFailed \/ DetectionFailed \/ EnumerationFailed
    \/ TestFailed \/ ExtractFailed

\* ------------------------------------------------------------- properties

\* C1: a run never stops before it has an exit code, the exit code is 0 or 1,
\* and it is 1 whenever validation, detection, enumeration or the chosen
\* action failed (so 0 is returned only when none of them failed).
C1_ExitCode ==
    /\ exitCode \in {NoExit, 0, 1}
    /\ (Running => ENABLED Next)
    /\ (Terminated /\ SomeStageFailed => exitCode = 1)
    /\ (exitCode = 0 => ~SomeStageFailed)

C1_Witness ==
    /\ Terminated /\ exitCode = 1
    /\ DetectionFailed

\* C2: the stages entered are a prefix of Start, Validated, Detected,
\* Enumerated, one action, Done or Failed; nothing follows Done or Failed;
\* an action is entered only after validation, detection and enumeration
\* succeeded.
C2_StageOrder ==
    /\ hist[1] = "Start"
    /\ LastOf(hist) = StageOf(pc)
    /\ \A k \in 1 .. (Len(hist) - 1) :
        \/ hist[k + 1] = "Failed" /\ Rank(hist[k]) < 5
        \/ hist[k + 1] # "Failed" /\ Rank(hist[k + 1]) = Rank(hist[k]) + 1
    /\ (LastOf(hist) \in {"Done", "Failed"} => Terminated)
    /\ (ActionEntered =>
            /\ fileStat = "file"
            /\ fileState # "unopened"
            /\ pBinary \in {"binary", "archive"}
            /\ nRecords > 0)

C2_Witness ==
    hist = <<"Start", "Validated", "Detected", "Enumerated", "Testing", "Failed">>

\* C3: Test says PASSED, and the run exits 0, exactly when the handler
\* returned success and left at least one top-level file in the temporary
\* directory; otherwise it says FAILED and the run exits 1.
C3_TestVerdict ==
    (Terminated /\ TestRan) =>
        IF bTestResult /\ wroteFiles > 0
        THEN verdict = "PASSED" /\ exitCode = 0 /\ errors = <<>>
        ELSE verdict = "FAILED" /\ exitCode = 1 /\ errors = <<MsgTestFailed>>

C3_Witness ==
    /\ Terminated /\ TestRan
    /\ bTestResult /\ wroteFiles = 0
    /\ verdict = "FAILED"

\* C4: the temporary directory exists only between its creation by Test and
\* its removal by Test; it is gone before the verdict and when the run ends,
\* whatever the handler returned; a run that does not test never touches it.
C4_TempDirRemoved ==
    /\ (TempDir \in fsDirs => pc = "TestCounted")
    /\ (verdict \in {"PASSED", "FAILED"} => TempDir \notin fsDirs /\ tempFiles = 0)
    /\ (Terminated /\ Entered("Testing") =>
            /\ TempDir \notin fsDirs
            /\ \E k \in 1 .. Len(fsLog) : fsLog[k] = <<"remove", TempDir>>)
    /\ (pc \in {"TestCleaned"} => TempDir \notin fsDirs)
    /\ (~Entered("Testing") => \A k \in 1 .. Len(fsLog) : fsLog[k][2] # TempDir)

C4_Witness ==
    /\ Terminated /\ Entered("Testing")
    /\ ~bTestResult /\ wroteFiles > 0
    /\ TempDir \notin fsDirs

\* C5: with no handler, or a handler that is not an archive, the run ends
\* Failed with the unsupported-format error and exit code 1, the records
\* are never enumerated and no action runs.
C5_UnsupportedFormat ==
    pBinary \in {"null", "binary"} =>
        /\ pc = "Failed" /\ exitCode = 1
        /\ errors \in {<<MsgUnsupported>>, <<MsgNotArchive>>}
        /\ enumCalls = 0
        /\ ~ActionEntered

\* C6: an enumeration that returns no record ends the run Failed with the
\* empty-archive error and exit code 1; no action runs and nothing is done
\* to the filesystem, whatever flags were given.
C6_EmptyArchive ==
    EnumerationFailed =>
        /\ pc = "Failed" /\ exitCode = 1
        /\ errors = <<MsgNoRecords>>
        /\ ~ActionEntered
        /\ fsLog = <<>>
        /\ TempDir \notin fsDirs

C6_Witness ==
    /\ EnumerationFailed /\ Terminated
    /\ args.test /\ args.extract

\* C7: with none of the three flags the action entered after the
\* enumeration is Extract; with a flag given the three switches are exactly
\* the flags, so Extract runs only if it was asked for.
C7_DefaultExtract ==
    LET none == ~args.list /\ ~args.test /\ ~args.extract IN
        /\ (fileStat = "file" /\ none =>
                bExtract /\ ~bListOnly /\ ~bTest)
        /\ (fileStat = "file" /\ ~none =>
                bExtract = args.extract /\ bListOnly = args.list
                    /\ bTest = args.test)
        /\ (ActionEntered /\ none => Entered("Extracting"))
        /\ (Entered("Extracting") => none \/ args.extract)
        /\ (LastOf(hist) = "Done" => ActionEntered)

C7_Witness ==
    /\ ~args.list /\ ~args.test /\ ~args.extract
    /\ Entered("Extracting") /\ pc = "Done"

\* C8: an input path that is missing or no regular file ends the run with
\* its error line and exit code 1; the file is never opened, nothing is
\* detected, enumerated or run, and the filesystem is not touched.
C8_InvalidInput ==
    fileStat \in {"missing", "dir"} =>
        /\ pc = "Failed" /\ exitCode = 1
        /\ errors = <<IF fileStat = "missing" THEN MsgNotFound ELSE MsgNotAFile>>
        /\ hist = <<"Start", "Failed">>
        /\ openCalls = 0 /\ fileState = "unopened"
        /\ pBinary = "unset" /\ enumCalls = 0
        /\ fsLog = <<>>

C8_Witness ==
    /\ fileStat = "missing" /\ Terminated
    /\ args.output = "/out" /\ ExtractPath(args.output, args.file) \notin fsDirs

\* ------------------------------------------- properties: progress helpers

ValidSlots == {i \in Slots : pdRecord[i].bIsValid}

RECURSIVE SumTotal(_)
SumTotal(S) ==
    IF S = {} THEN 0
    ELSE LET i == CHOOSE j \in S : TRUE
         IN  pdRecord[i].nTotal + SumTotal(S \ {i})

RECURSIVE SumCurrent(_)
SumCurrent(S) ==
    IF S = {} THEN 0
    ELSE LET i == CHOOSE j \in S : TRUE
         IN  pdRecord[i].nCurrent + SumCurrent(S \ {i})

\* C9, as stated: while no slot's total has ever been lowered, an update
\* never renders a smaller percent than the update before it.
C9_Monotone ==
    [][(out'.emitted /\ lastPercent # NoPercent /\ ~totalShrunk')
            => out'.percent >= lastPercent]_vars

\* C9, amended: of two updates rendered by consecutive operations (so with
\* no stage begun or ended in between, the totals as they were), the second
\* shows no smaller percent than the first if no slot's current was lowered.
C9_MonotoneAdvances ==
    [][(out.emitted /\ out'.emitted
            /\ \A i \in Slots : pdRecord'[i].nCurrent >= pdRecord[i].nCurrent)
            => out'.percent >= out.percent]_vars

C9_Witness ==
    /\ out.emitted /\ prevPercent # NoPercent
    /\ out.percent > prevPercent
    /\ Cardinality(ValidSlots) > 1

\* C10: a callback that finds the totals of the valid slots summing to 0
\* (no valid slot included) renders nothing and divides nothing; it divides
\* only by a positive sum.
C10_NoDivisionByZero ==
    out.called =>
        /\ (SumTotal(ValidSlots) = 0 => ~out.emitted /\ ~out.divided)
        /\ (out.divided => SumTotal(ValidSlots) > 0)
        /\ (out.emitted => out.total = SumTotal(ValidSlots))

C10_Witness ==
    /\ out.called /\ ~out.emitted
    /\ ValidSlots # {}
    /\ SumCurrent(ValidSlots) > 0

\* C11: whenever the totals of the valid slots sum to more than 0, the
\* percent rendered is floor(100 * sum of current / sum of total) brought
\* into 0 .. 100, whatever the counters are.
C11_ClampedPercent ==
    (out.called /\ SumTotal(ValidSlots) > 0) =>
        LET q == (100 * SumCurrent(ValidSlots)) \div SumTotal(ValidSlots)
        IN  /\ out.emitted
            /\ out.percent = IF q > 100 THEN 100 ELSE IF q < 0 THEN 0 ELSE q

\* The table with every slot that is not in use overwritten by r.
InvalidSlotsSet(pd, r) ==
    [i \in Slots |-> IF pd[i].bIsValid THEN pd[i]
                     ELSE [r EXCEPT !.bIsValid = FALSE]]

SlotRecords ==
    [bIsValid : {FALSE}, nCurrent : 0 .. MaxMonoCount,
     nTotal : 0 .. MaxMonoCount, sStatus : StatusSet]

\* C13: the current and the total rendered are the sums of nCurrent and of
\* nTotal over the valid slots, and what the slots that are not valid hold
\* changes nothing of the output: two tables that differ only there render
\* the same percent, the same pair and the same status text.
C13_ValidSlotsOnly ==
    /\ (out.called /\ out.emitted) =>
           /\ out.current = SumCurrent(ValidSlots)
           /\ out.total = SumTotal(ValidSlots)
    /\ \A r \in SlotRecords :
           progressCallback(InvalidSlotsSet(pdRecord, r))
               = progressCallback(pdRecord)

\* A line was rendered from a table in which a released slot still holds
\* counters and a status of its own.
C13_Witness ==
    /\ out.called /\ out.emitted
    /\ \E i \in Slots : /\ ~pdRecord[i].bIsValid
                        /\ pdRecord[i].nCurrent > 0
                        /\ pdRecord[i].nTotal > 0
                        /\ pdRecord[i].sStatus # ""

\* The status text read off the table from slot i upwards: each valid
\* slot's status that is not empty, a "/" between two of them.
RECURSIVE StatusFrom(_, _)
StatusFrom(pd, i) ==
    IF i = NumSlots THEN ""
    ELSE LET rest == StatusFrom(pd, i + 1)
             own == IF pd[i].bIsValid THEN pd[i].sStatus ELSE ""
         IN  IF own = "" THEN rest
             ELSE IF rest = "" THEN own
             ELSE own \o "/" \o rest

\* C14: the status text rendered is the statuses of the valid slots that
\* are not empty, joined with "/" in increasing slot index; it is a function
\* of the table alone, so the order in which the slots were claimed does
\* not show, and an empty status adds neither text nor separator.
C14_StatusJoin ==
    (out.called /\ out.emitted) => out.status = StatusFrom(pdRecord, 0)

\* Two valid slots with different statuses were rendered, lower index first.
C14_Witness ==
    /\ out.called /\ out.emitted
    /\ pdRecord[0].bIsValid /\ pdRecord[0].sStatus = "B"
    /\ pdRecord[1].bIsValid /\ pdRecord[1].sStatus = "A"
    /\ out.status = "B/A"

\* The instants the clock shows.
Clock == MaxInterval .. (MaxInterval + MaxTicks)

\* The invocations, final updates aside, in the second that starts at t.
InWindow(times, t) == {x \in times : t <= x /\ x < t + Window}

\* This step is a report on a slot in use.
Reports == lastOp' = "report" /\ now' = now

\* A callback invocation that is not the final update follows the one
\* before it by minInterval or more.
GapKept ==
    (Reports /\ out'.called /\ cbLast # NoTime /\ ~IsFinalUpdate(pdRecord'))
        => now - cbLast >= minInterval

\* The update that completes the work is delivered whatever the time.
FinalDelivered ==
    (Reports /\ IsFinalUpdate(pdRecord')) => (out'.called /\ cbLast' = now)

\* C12 as stated: invocations are throttled, two consecutive ones never
\* less than minInterval apart, so that at most (one second) / minInterval
\* of them fall into any one second, except that the final update at 100%
\* is always delivered.
C12_Throttled ==
    [][/\ GapKept
       /\ FinalDelivered
       /\ \A t \in Clock :
              Cardinality(InWindow(cbTimes', t)) * minInterval <= Window]_vars

\* C12, amended: the same, the number of invocations in any one second
\* being at most (one second) / minInterval rounded up to a whole number.
C12_ThrottledRoundedUp ==
    [][/\ GapKept
       /\ FinalDelivered
       /\ \A t \in Clock :
              (Cardinality(InWindow(cbTimes', t)) - 1) * minInterval
                  < Window]_vars

\* The final update was delivered less than minInterval after an update
\* that was not final.
C12_Witness ==
    /\ lastOp = "report"
    /\ out.called /\ IsFinalUpdate(pdRecord)
    /\ cbTimes # {}
    /\ \E x \in cbTimes : cbLast - x < minInterval

OpsDone(op) == {k \in 1 .. Len(fsLog) : fsLog[k][1] = op}

\* C15: a run that fails has written exactly one "Error: ..." line and
\* exits with code 1, a run that succeeds has written none, and no stage
\* runs a second time, after a failure least of all: nothing is retried.
C15_OneErrorLine ==
    /\ exitCode \in {NoExit, 0, 1}
    /\ (pc = "Failed") <=> (exitCode = 1)
    /\ (exitCode = 1) => Len(errors) = 1
    /\ (exitCode # 1) => errors = <<>>
    /\ \A j, k \in 1 .. Len(hist) : hist[j] = hist[k] => j = k
    /\ openCalls <= 1 /\ enumCalls <= 1
    /\ Cardinality(OpsDone("unpack")) <= 1
    /\ Terminated => ~ENABLED Next

\* The last stage failed, after every stage before it had run once.
C15_Witness ==
    /\ exitCode = 1
    /\ errors = <<MsgExtractFailed>>
    /\ openCalls = 1 /\ enumCalls = 1
    /\ Cardinality(OpsDone("unpack")) = 1

\* The run is the progress demonstration of --test-progress.
TestProgressRun == rev = "later" /\ args.testProgress

\* C16: exactly one positional argument is required: a run without one
\* prints the usage and exits with code 1 and validates and processes
\* nothing, and only a run given exactly one positional argument is
\* processed as a normal operation (here: gets as far as its action).
C16_ExactlyOnePositional ==
    /\ (args.nPositional = 0 /\ Terminated /\ ~TestProgressRun) =>
           /\ exitCode = 1 /\ errors = <<MsgNoInput>>
           /\ fileStat = "unknown" /\ openCalls = 0 /\ fsLog = <<>>
    /\ ActionEntered => args.nPositional = 1

\* The destination the Extract action is to use: the --output value if one
\* was given, else the input file's directory, then the input file's name
\* without its last extension.
Destination ==
    LET name == args.file
        root == IF args.output # "" THEN args.output ELSE InputDir
        base == IF Len(name) = 1 THEN name
                ELSE [k \in 1 .. (Len(name) - 1) |-> name[k]]
    IN  <<root, base>>

\* C17: once the Extract action has invoked the handler's folder
\* extraction, it has done so once, with the destination directory as its
\* path, after creating that directory, and the directory exists.
C17_Destination ==
    (Entered("Extracting") /\ wroteFiles # -1) =>
        /\ fsLog = <<<<"mkpath", Destination>>, <<"unpack", Destination>>>>
        /\ Destination \in fsDirs

\* The positions of main() at which the open file or the handler is yet to
\* be used.
UsingResources ==
    {"Detected", "Enumerated", "Listing", "Testing", "TestCounted",
     "TestCleaned", "Extracting"}

\* C19: the input file is opened at most once and, once open, is closed
\* (once) before main returns, on every path; the handler the resolver gave
\* is released exactly once on every path on which it was obtained, and is
\* not used after that: what uses it runs while it is still allocated.
C19_Resources ==
    /\ openCalls <= 1 /\ closeCalls <= 1 /\ deleteCalls <= 1
    /\ (fileState = "closed") <=> (closeCalls = 1)
    /\ (closeCalls = 1) => (openCalls = 1 /\ ~OpenFailed)
    /\ (deleteCalls = 1) => (pBinary \in {"binary", "archive"} /\ ~handlerLive)
    /\ Terminated =>
           /\ fileState # "open"
           /\ ~handlerLive
           /\ (openCalls = 1 /\ ~OpenFailed) => closeCalls = 1
           /\ (pBinary \in {"binary", "archive"}) => deleteCalls = 1
    /\ (pc \in UsingResources) => (fileState = "open" /\ handlerLive)

\* The earlier revision found no records: it deleted the handler through
\* pArchive and closed the file.
C19_Witness ==
    /\ rev = "earlier"
    /\ errors = <<MsgNoRecords>>
    /\ closeCalls = 1 /\ deleteCalls = 1
    /\ fileState = "closed" /\ ~handlerLive

\* C20: whatever flags are given, at most one action runs, chosen by the
\* priority List over Test over Extract: the handler's folder extraction is
\* invoked at most once; with --list nothing is created or extracted; with
\* --test and no --list the only directory touched is the temporary one,
\* which is gone when the run ends.
C20_OneAction ==
    /\ Cardinality({a \in ActionStages : Entered(a)}) <= 1
    /\ ActionEntered =>
           Entered(IF args.list THEN "Listing"
                   ELSE IF args.test THEN "Testing" ELSE "Extracting")
    /\ Cardinality(OpsDone("unpack")) <= 1
    /\ args.list => (fsLog = <<>> /\ wroteFiles = -1 /\ tempFiles = 0)
    /\ (~args.list /\ args.test) =>
           /\ \A k \in 1 .. Len(fsLog) : fsLog[k][2] = TempDir
           /\ Terminated => (TempDir \notin fsDirs /\ tempFiles = 0)

\* All three flags were given and the run ended after listing, nothing
\* created.
C20_Witness ==
    /\ args.list /\ args.test /\ args.extract
    /\ hist = <<"Start", "Validated", "Detected", "Enumerated", "Listing", "Done">>
    /\ fsLog = <<>>

\* What holds all along a --test-progress run: no stage of the orchestrator
\* is entered, no file is looked at or opened, nothing is done to the
\* filesystem, no error is written, the exit code is 0 if any; slot 0
\* alone is in use, with total 100, and after each turn of the loop the
\* callback has been invoked and has rendered the percent 5 above the one
\* of the turn before, 0 on the first turn, 100 on the last.
TestProgressSafe ==
    /\ hist = <<"Start">>
    /\ pc \in {"Start", "TestProgress", "TestProgressDone"}
    /\ exitCode \in {NoExit, 0}
    /\ (exitCode = 0) <=> (pc = "TestProgressDone")
    /\ errors = <<>>
    /\ fileStat = "unknown" /\ openCalls = 0 /\ fileState = "unopened"
    /\ pBinary = "unset" /\ enumCalls = 0
    /\ fsLog = <<>> /\ tempFiles = 0 /\ wroteFiles = -1
    /\ (pc = "Start") => (tpI = 0 /\ pdRecord = createPdStruct)
    /\ (pc # "Start") =>
           /\ \A i \in Slots : pdRecord[i].bIsValid <=> (i = 0)
           /\ pdRecord[0].nTotal = 100
           /\ \E n \in 0 .. 21 : tpI = 5 * n
           /\ (tpI = 0) => (~out.called /\ lastPercent = NoPercent)
           /\ (tpI > 0) =>
                  /\ pdRecord[0].nCurrent = tpI - 5
                  /\ out.called /\ out.emitted
                  /\ out.percent = tpI - 5
                  /\ out.current = tpI - 5 /\ out.total = 100
                  /\ lastPercent = tpI - 5
                  /\ prevPercent = IF tpI >= 10 THEN tpI - 10 ELSE NoPercent
    /\ (pc = "TestProgressDone") => (tpI = 105 /\ out.percent = 100)

\* C21: with --test-progress set the run goes round the orchestrator: it
\* needs, validates and opens no input file, leaves the filesystem alone,
\* and ends, with exit code 0, after driving slot 0 (total 100) from 0 to
\* 100 in steps of 5 with one callback invocation a step, so that the
\* percents rendered are 0, 5, ..., 100 in this order, 100 the last.
C21_TestProgress ==
    /\ [](TestProgressRun => TestProgressSafe)
    /\ (TestProgressRun ~> (TestProgressRun /\ exitCode = 0 /\ out.percent = 100))

\* A --test-progress run given no input file has ended after rendering 100%.
C21_Witness ==
    /\ TestProgressRun /\ args.nPositional = 0
    /\ pc = "TestProgressDone" /\ exitCode = 0
    /\ out.emitted /\ out.percent = 100 /\ prevPercent = 95

====
